---- MODULE Spec2Model ----
(***************************************************************************)
(* A model of src/src/goCheck.ts: runTool (one external tool run, its      *)
(* execFile callback and the line parser inside it) and check (the         *)
(* orchestrator that starts the enabled runs and joins them with           *)
(* Promise.all).                                                           *)
(*                                                                         *)
(* Text is a sequence of one-character strings, so that the regular        *)
(* expression of runTool is matched character by character.  Literals of   *)
(* the source that are only ever concatenated and written out (command     *)
(* names, flags, the words of log lines) are kept as one element.          *)
(***************************************************************************)
EXTENDS Integers, Sequences, FiniteSets, TLC

\* ----------------------------------------------------------------- bounds

\* The calls of check in a session, the runs they start in all, the lines of
\* a text that is followed line by line, and the latest iteration of the
\* line loop in which a fault is followed.
MaxCalls == 2
MaxRuns == 4
MaxLines == 3
MaxFault == 1

\* ------------------------------------------------------------- characters

Digits == {"0", "1", "2", "3", "4", "5", "6", "7", "8", "9"}

Letters ==
    {"a", "b", "c", "d", "e", "f", "g", "h", "i", "j", "k", "l", "m",
     "n", "o", "p", "q", "r", "s", "t", "u", "v", "w", "x", "y", "z",
     "A", "B", "C", "D", "E", "F", "G", "H", "I", "J", "K", "L", "M",
     "N", "O", "P", "Q", "R", "S", "T", "U", "V", "W", "X", "Y", "Z"}

\* \w of the regular expression
WordChars == Letters \cup Digits \cup {"_"}

\* [\w.\/] of the regular expression
FileChars == WordChars \cup {".", "/"}

\* what . of the regular expression does not match
LineTerminators == {"\n", "\r"}

\* ---------------------------------------------------------------- strings

\* Number of elements of s from position from on that lie in class.
RECURSIVE RunLen(_, _, _)
RunLen(s, from, class) ==
    IF from >= 1 /\ from <= Len(s) /\ s[from] \in class
    THEN 1 + RunLen(s, from + 1, class)
    ELSE 0

\* s.split('\n')
RECURSIVE Split(_)
Split(s) ==
    LET N == {k \in 1..Len(s) : s[k] = "\n"}
    IN IF N = {}
       THEN <<s>>
       ELSE LET n == CHOOSE k \in N : \A j \in N : k <= j
            IN <<SubSeq(s, 1, n - 1)>> \o Split(SubSeq(s, n + 1, Len(s)))

\* parts.join(sep)
RECURSIVE Join(_, _)
Join(parts, sep) ==
    IF parts = <<>> THEN <<>>
    ELSE IF Len(parts) = 1 THEN parts[1]
    ELSE parts[1] \o sep \o Join(Tail(parts), sep)

DigitVal(c) ==
    CASE c = "0" -> 0 [] c = "1" -> 1 [] c = "2" -> 2 [] c = "3" -> 3
      [] c = "4" -> 4 [] c = "5" -> 5 [] c = "6" -> 6 [] c = "7" -> 7
      [] c = "8" -> 8 [] c = "9" -> 9

DigitChar(d) ==
    CASE d = 0 -> "0" [] d = 1 -> "1" [] d = 2 -> "2" [] d = 3 -> "3"
      [] d = 4 -> "4" [] d = 5 -> "5" [] d = 6 -> "6" [] d = 7 -> "7"
      [] d = 8 -> "8" [] d = 9 -> "9"

\* +str for a string of digits; the empty string converts to 0.
RECURSIVE ToNumber(_)
ToNumber(s) ==
    IF s = <<>> THEN 0
    ELSE 10 * ToNumber(SubSeq(s, 1, Len(s) - 1)) + DigitVal(s[Len(s)])

\* `${n}` for a natural number
RECURSIVE NumberToString(_)
NumberToString(n) ==
    IF n < 10 THEN <<DigitChar(n)>>
    ELSE NumberToString(n \div 10) \o <<DigitChar(n % 10)>>

\* ------------------------------------------------------------------ paths

\* Index of the last element of p that is not a slash, 0 when there is none.
LastNonSlash(p) ==
    LET S == {k \in 1..Len(p) : p[k] # "/"}
    IN IF S = {} THEN 0 ELSE CHOOSE k \in S : \A j \in S : j <= k

\* Index of the last slash of p before position e, 0 when there is none.
LastSlashBefore(p, e) ==
    LET S == {k \in 1..Len(p) : k < e /\ p[k] = "/"}
    IN IF S = {} THEN 0 ELSE CHOOSE k \in S : \A j \in S : j <= k

\* path.basename(p): the last component, trailing slashes dropped.
Basename(p) ==
    LET e == LastNonSlash(p)
    IN SubSeq(p, LastSlashBefore(p, e) + 1, e)

\* path.dirname(p) of an absolute path.
Dirname(p) ==
    LET e == LastNonSlash(p)
        s == LastSlashBefore(p, e)
        d == LastNonSlash(SubSeq(p, 1, s))
    IN IF d = 0 THEN <<"/">> ELSE SubSeq(p, 1, d)

\* path.resolve(cwd, b) for an absolute, normalized cwd and a b without slash.
Resolve(cwd, b) ==
    IF b = <<>> \/ b = <<".">> THEN cwd
    ELSE IF b = <<".", ".">> THEN Dirname(cwd)
    ELSE IF cwd = <<"/">> THEN cwd \o b
    ELSE cwd \o <<"/">> \o b

\* ------------------------------------------------- the regular expression

\* The ways (\d?):*(\w*):* can match from position p of s so that a blank
\* follows and (.*)$ takes the rest of s: the lengths <<d, c1, w, c2>> of the
\* four parts.
Tails(s, p) ==
    LET rest(q) == q <= Len(s) /\ s[q] = " "
                   /\ \A k \in (q + 1)..Len(s) : s[k] \notin LineTerminators
    IN UNION { UNION { UNION { { <<d, c1, w, c2>> :
                 c2 \in {c \in 0..RunLen(s, p + d + c1 + w, {":"}) :
                            rest(p + d + c1 + w + c)} } :
               w \in 0..RunLen(s, p + d + c1, WordChars) } :
             c1 \in 0..RunLen(s, p + d, {":"}) } :
           d \in 0..(IF RunLen(s, p, Digits) > 0 THEN 1 ELSE 0) }

\* t is tried before u by the backtracking matcher: every quantifier is
\* greedy, the leftmost one decides first.
TriedBefore(t, u) ==
    \/ t[1] > u[1]
    \/ t[1] = u[1] /\ t[2] > u[2]
    \/ t[1] = u[1] /\ t[2] = u[2] /\ t[3] > u[3]
    \/ t[1] = u[1] /\ t[2] = u[2] /\ t[3] = u[3] /\ t[4] >= u[4]

\* The match the backtracking matcher finds first among T.
First(T) == CHOOSE t \in T : \A u \in T : TriedBefore(t, u)

NoMatch == [ok |-> FALSE]

\* /^([\w.\/]*):(\d+):(\d?):*(\w*):* (.*)$/.exec(s)
Exec(s) ==
    LET f == RunLen(s, 1, FileChars)
        l == RunLen(s, f + 2, Digits)
        p == f + l + 3
    IN IF f + 1 > Len(s) \/ s[f + 1] # ":" THEN NoMatch
       ELSE IF l = 0 \/ f + l + 2 > Len(s) \/ s[f + l + 2] # ":" THEN NoMatch
       ELSE LET T == Tails(s, p)
            IN IF T = {} THEN NoMatch
            ELSE LET t == First(T)
                q == p + t[1] + t[2] + t[3] + t[4]
            IN [ok |-> TRUE,
                file |-> SubSeq(s, 1, f),
                lineStr |-> SubSeq(s, f + 2, f + l + 1),
                charStr |-> SubSeq(s, p, p + t[1] - 1),
                reSeverity |-> SubSeq(s, p + t[1] + t[2],
                                      p + t[1] + t[2] + t[3] - 1),
                msg |-> SubSeq(s, q + 1, Len(s))]

\* ------------------------------------------------ runTool: the line loop

\* IsContinuation without the test of the first character.
IsContinuationNoTab(line, ret) == Len(ret) > 0

\* IsContinuation with the test ret.length > 1.
IsContinuationAfterTwo(line, ret) ==
    Len(line) > 0 /\ line[1] = "\t" /\ Len(ret) > 1

\* lines[i][0] === '\t' && ret.length > 0
IsContinuation(line, ret) ==
    Len(line) > 0 /\ line[1] = "\t" /\ Len(ret) > 0

\* Continue appending to the first diagnostic instead of the last.
ContinueFirst(ret, line) ==
    [ret EXCEPT ![1].msg = @ \o <<"\n">> \o line]

\* ret[ret.length - 1].msg += '\n' + lines[i]
Continue(ret, line) ==
    [ret EXCEPT ![Len(ret)].msg = @ \o <<"\n">> \o line]

\* LineOf turned into a zero-based line number.
LineOfZeroBased(lineStr) == ToNumber(lineStr) - 1

\* let line = +lineStr
LineOf(lineStr) == ToNumber(lineStr)

\* CharOf without the correction of 0.
CharOfRaw(charStr) == ToNumber(charStr)

\* let char = +charStr; if (char === 0) char = 1
CharOf(charStr) ==
    IF ToNumber(charStr) = 0 THEN 1 ELSE ToNumber(charStr)

\* FileOf without basename: the reported path is resolved as it is.
FileOfWhole(cwd, file) == Resolve(cwd, file)

\* file = path.resolve(cwd, path.basename(file))
FileOf(cwd, file) == Resolve(cwd, Basename(file))

\* LineSeverity without the default.
LineSeverityNoDefault(reSeverity, severity) == reSeverity

\* let lineSeverity = reSeverity !== '' ? reSeverity : severity
LineSeverity(reSeverity, severity) ==
    IF reSeverity # <<>> THEN reSeverity ELSE severity

\* `${file}:${line}:${char}: ${msg}`
LogLine(d) ==
    d.file \o <<":">> \o NumberToString(d.line) \o <<":">>
           \o NumberToString(d.char) \o <<":", " ">> \o d.msg

\* LoopBody writing continuation lines to the output channel as well.
LoopBodyLogContinuation(st, line, cwd, severity) ==
    IF IsContinuation(line, st.ret)
    THEN [ret |-> Continue(st.ret, line), out |-> Append(st.out, line)]
    ELSE LET match == Exec(line)
         IN IF ~match.ok THEN st
            ELSE LET d == [file |-> FileOf(cwd, match.file),
                           line |-> LineOf(match.lineStr),
                           msg |-> match.msg,
                           char |-> CharOf(match.charStr),
                           severity |-> LineSeverity(match.reSeverity, severity)]
                 IN [ret |-> Append(st.ret, d),
                     out |-> Append(st.out, LogLine(d))]

\* LoopBody with unshift in place of push: the new diagnostic comes first.
LoopBodyUnshift(st, line, cwd, severity) ==
    IF IsContinuation(line, st.ret)
    THEN [st EXCEPT !.ret = Continue(st.ret, line)]
    ELSE LET match == Exec(line)
         IN IF ~match.ok THEN st
            ELSE LET d == [file |-> FileOf(cwd, match.file),
                           line |-> LineOf(match.lineStr),
                           msg |-> match.msg,
                           char |-> CharOf(match.charStr),
                           severity |-> LineSeverity(match.reSeverity, severity)]
                 IN [ret |-> <<d>> \o st.ret,
                     out |-> Append(st.out, LogLine(d))]

\* One iteration of the for loop over lines: st.ret is ret, st.out the lines
\* appended to the output channel so far.
LoopBody(st, line, cwd, severity) ==
    IF IsContinuation(line, st.ret)
    THEN [st EXCEPT !.ret = Continue(st.ret, line)]
    ELSE LET match == Exec(line)
         IN IF ~match.ok THEN st
            ELSE LET d == [file |-> FileOf(cwd, match.file),
                           line |-> LineOf(match.lineStr),
                           msg |-> match.msg,
                           char |-> CharOf(match.charStr),
                           severity |-> LineSeverity(match.reSeverity, severity)]
                 IN [ret |-> Append(st.ret, d),
                     out |-> Append(st.out, LogLine(d))]

\* The iterations of the loop for lines i to last.
RECURSIVE Loop(_, _, _, _, _, _)
Loop(st, lines, i, last, cwd, severity) ==
    IF i > last THEN st
    ELSE Loop(LoopBody(st, lines[i], cwd, severity), lines, i + 1, last,
              cwd, severity)

\* ------------------------------------------------ check: the descriptors

\* The severity words of check, as text.
SevError == <<"e", "r", "r", "o", "r">>
SevWarning == <<"w", "a", "r", "n", "i", "n", "g">>

\* The files check is called with.
Filenames == {<<"/", "p", "/", "a", "_", "t", "e", "s", "t", ".", "g", "o">>}

\* filename.match(/_test.go$/i)
IsTestFile(filename) ==
    LET n == Len(filename)
    IN /\ n >= 8
       /\ filename[n - 7] = "_"
       /\ filename[n - 6] \in {"t", "T"}
       /\ filename[n - 5] \in {"e", "E"}
       /\ filename[n - 4] \in {"s", "S"}
       /\ filename[n - 3] \in {"t", "T"}
       /\ filename[n - 2] \notin LineTerminators
       /\ filename[n - 1] \in {"g", "G"}
       /\ filename[n] \in {"o", "O"}

\* goConfig['linter'] || 'golint': the configured linters.
Linters == {"golint", "gometalinter"}

\* The values goConfig can have when a session starts: the four switches, the
\* linter and the array of lint flags.  buildFlags and vetFlags are left at
\* their default [], buildTags at ''.
Configs ==
    {config \in [buildOnSave : BOOLEAN, lintOnSave : BOOLEAN,
                 vetOnSave : BOOLEAN, coverOnSave : BOOLEAN,
                 linter : Linters, lintFlags : {<<>>}] :
        config.lintOnSave \/ config.linter = "golint"}

\* The runs check can start, in the order it starts them.
ToolKinds == {"build", "lint", "vet"}

\* The arguments of runTool as check builds them for the run of one kind;
\* flags is the array goConfig['lintFlags'] as it is when it is read.
Descriptor(kind, filename, linter, flags) ==
    CASE kind = "build" ->
           [cmd |-> <<"go">>,
            args |-> IF IsTestFile(filename)
                     THEN << <<"test">>, <<"-copybinary">>, <<"-o">>,
                             <<"tmp/go-code-check">>, <<"-c">>, <<"-tags">>,
                             <<"\"\"">>, <<".">> >>
                     ELSE << <<"build">>, <<"-o">>, <<"tmp/go-code-check">>,
                             <<"-tags">>, <<"\"\"">>, <<".">> >>,
            cwd |-> Dirname(filename),
            severity |-> SevError,
            useStdErr |-> TRUE,
            notFoundError |-> "No \"go\" binary could be found in GOROOT: \""]
      [] kind = "lint" ->
           [cmd |-> <<linter>>,
            args |-> flags,
            cwd |-> Dirname(filename),
            severity |-> SevWarning,
            useStdErr |-> FALSE,
            notFoundError |-> "The '" \o linter
                              \o "' command is not available.  Please install it."]
      [] kind = "vet" ->
           [cmd |-> <<"go">>,
            args |-> << <<"tool">>, <<"vet">>, filename >>,
            cwd |-> Dirname(filename),
            severity |-> SevWarning,
            useStdErr |-> TRUE,
            notFoundError |-> "No \"go\" binary could be found in GOROOT: \"\""]

\* ['Finished running tool:', cmd, ...args].join(' ')
FinishedLine(desc) ==
    Join(<< <<"Finished running tool:">>, desc.cmd >> \o desc.args, <<" ">>)

\* --------------------------------------------- runTool: the whole callback

\* The outcomes of execFile: err is null, an error with an exit status, or an
\* error with code ENOENT.
Errs == {"none", "exit", "ENOENT"}

\* What execFile hands to its callback, for the texts a tool can write: a
\* process that could not be started has written nothing.
ExecResults(texts) ==
    [err : {"none", "exit"}, stdout : texts, stderr : texts]
        \cup {[err |-> "ENOENT", stdout |-> <<>>, stderr |-> <<>>]}

\* Designated reading the standard output of every tool.
DesignatedStdout(desc, res) == res.stdout

\* Designated reading the error stream whenever the tool failed.
DesignatedOnError(desc, res) ==
    IF res.err = "exit" \/ desc.useStdErr THEN res.stderr ELSE res.stdout

\* The text of the stream runTool reads.
Designated(desc, res) == IF desc.useStdErr THEN res.stderr ELSE res.stdout

\* RunToolCallback without the empty line that closes the lines of a run.
RunToolCallbackNoBlank(desc, res, fault) ==
    IF res.err = "ENOENT"
    THEN [state |-> "resolved", value |-> <<>>, out |-> <<>>,
          shown |-> <<desc.notFoundError>>]
    ELSE LET lines == Split(Designated(desc, res))
             last == IF fault = 0 THEN Len(lines) ELSE fault - 1
             st == Loop([ret |-> <<>>, out |-> <<FinishedLine(desc)>>],
                        lines, 1, last, desc.cwd, desc.severity)
         IN IF fault = 0
            THEN [state |-> "resolved", value |-> st.ret,
                  out |-> st.out, shown |-> <<>>]
            ELSE [state |-> "rejected", value |-> <<>>, out |-> st.out,
                  shown |-> <<>>]

\* RunToolCallback without the test for ENOENT: the streams of a tool that is
\* missing are parsed like any other.
RunToolCallbackNoTest(desc, res, fault) ==
    LET lines == Split(Designated(desc, res))
        last == IF fault = 0 THEN Len(lines) ELSE fault - 1
        st == Loop([ret |-> <<>>, out |-> <<FinishedLine(desc)>>],
                   lines, 1, last, desc.cwd, desc.severity)
    IN IF fault = 0
       THEN [state |-> "resolved", value |-> st.ret,
             out |-> Append(st.out, <<>>), shown |-> <<>>]
       ELSE [state |-> "rejected", value |-> <<>>, out |-> st.out,
             shown |-> <<>>]

\* The callback of execFile in runTool, for the descriptor desc.  fault is 0,
\* or the iteration of the for loop in which parsing throws, which the catch
\* turns into a rejection.  The result: how the promise of the run settles
\* (state, value), the lines appended to the output channel (out) and the
\* messages shown (shown).
RunToolCallback(desc, res, fault) ==
    IF res.err = "ENOENT"
    THEN [state |-> "resolved", value |-> <<>>, out |-> <<>>,
          shown |-> <<desc.notFoundError>>]
    ELSE LET lines == Split(Designated(desc, res))
             last == IF fault = 0 THEN Len(lines) ELSE fault - 1
             st == Loop([ret |-> <<>>, out |-> <<FinishedLine(desc)>>],
                        lines, 1, last, desc.cwd, desc.severity)
         IN IF fault = 0
            THEN [state |-> "resolved", value |-> st.ret,
                  out |-> Append(st.out, <<>>), shown |-> <<>>]
            ELSE [state |-> "rejected", value |-> <<>>, out |-> st.out,
                  shown |-> <<>>]

\* The iterations in which the callback can throw: none when the tool is
\* missing, since the callback returns before it parses.
Faults(desc, res) ==
    IF res.err = "ENOENT" THEN {0}
    ELSE {k \in 0..MaxFault : k <= Len(Split(Designated(desc, res)))}

\* ------------------------------------------------------------- the state

VARIABLES
    calls,          \* the calls of check made so far, each with its promises
    outputChannel,  \* the lines of the output channel 'Go'
    notifications,  \* the messages given to showInformationMessage
    goConfig,       \* the workspace configuration check is called with
    tool            \* one run of runTool followed line by line (ParseSpec)

vars == <<calls, outputChannel, notifications, goConfig, tool>>

\* What a tool writes on a stream during a run started by check.
Outputs ==
    { <<>>,
      <<"a", ".", "g", "o", ":", "7", ":", "3", ":", " ", "m", "\n", "\t", "x", "\n", "d", "/", "b", ".", "g", "o", ":", "8", ":", " ", "k", "\n">> }

\* What the promise of getCoverage resolves with.
CoverResults ==
    { <<>>,
      << [file |-> <<"/", "p", "/", "a", ".", "g", "o">>, line |-> 3, msg |-> <<"c", "o", "v">>, char |-> 1,
          severity |-> SevWarning] >> }

Idle ==
    [pc |-> "idle", desc |-> <<>>, res |-> <<>>, lines |-> <<>>, i |-> 0,
     ret |-> <<>>]

Init ==
    /\ calls = <<>>
    /\ outputChannel = <<>>
    /\ notifications = <<>>
    /\ goConfig \in Configs
    /\ tool = Idle

\* ------------------------------------------------------------------ check

Push(array, cond, x) == IF cond THEN Append(array, x) ELSE array

\* RunningToolsPromises with the vet run started whatever vetOnSave is.
RunningToolsPromisesAlwaysVet(config) ==
    Push(Push(Push(Push(<<>>, config.buildOnSave, "build"),
                   config.lintOnSave, "lint"),
              TRUE, "vet"),
         config.coverOnSave, "cover")

\* runningToolsPromises as check fills it: the kinds of the runs started, in
\* the order of the four if statements.
RunningToolsPromises(config) ==
    Push(Push(Push(Push(<<>>, config.buildOnSave, "build"),
                   config.lintOnSave, "lint"),
              config.vetOnSave, "vet"),
         config.coverOnSave, "cover")

\* args.push(filename): args is the array of the configuration itself.
PushFilename(config, filename) ==
    Push(config.lintFlags,
         config.lintOnSave /\ config.linter = "golint", filename)

\* Concat with the lists taken last to first.
RECURSIVE ConcatLastFirst(_)
ConcatLastFirst(resultSets) ==
    IF resultSets = <<>> THEN <<>>
    ELSE ConcatLastFirst(Tail(resultSets)) \o Head(resultSets)

\* [].concat.apply([], resultSets)
RECURSIVE Concat(_)
Concat(resultSets) ==
    IF resultSets = <<>> THEN <<>>
    ELSE Head(resultSets) \o Concat(Tail(resultSets))

\* AllThenState settling as soon as one promise has resolved.
AllThenStateAny(promises) ==
    IF \E j \in 1..Len(promises) : promises[j].state = "rejected"
    THEN "rejected"
    ELSE IF \E j \in 1..Len(promises) : promises[j].state = "resolved"
    THEN "resolved"
    ELSE "pending"

\* AllThenState leaving out the promises that rejected.
AllThenStateSkipRejected(promises) ==
    IF \A j \in 1..Len(promises) : promises[j].state # "pending"
    THEN "resolved"
    ELSE "pending"

\* Promise.all(runningToolsPromises).then(...): what the promise check returned
\* settles to, given the promises of its runs; "pending" while it cannot settle.
AllThenState(promises) ==
    IF \E j \in 1..Len(promises) : promises[j].state = "rejected"
    THEN "rejected"
    ELSE IF \A j \in 1..Len(promises) : promises[j].state = "resolved"
    THEN "resolved"
    ELSE "pending"

\* The value it resolves with.
AllThenValue(promises) ==
    IF AllThenState(promises) = "resolved"
    THEN Concat([j \in 1..Len(promises) |-> promises[j].value])
    ELSE <<>>

\* A reaction of a settled promise is queued: it runs before any other callback
\* and before the next call of check.
JobQueued(c) ==
    calls[c].state = "pending" /\ AllThenState(calls[c].promises) # "pending"

NoJobQueued == \A c \in 1..Len(calls) : ~JobQueued(c)

\* The number of runs started so far.
RECURSIVE Started(_)
Started(cs) ==
    IF cs = <<>> THEN 0 ELSE Len(Head(cs).promises) + Started(Tail(cs))

\* check(filename, goConfig), called when the document of the session is saved:
\* every call of a session is for the same file and the same configuration.
Check(filename) ==
    /\ Len(calls) < MaxCalls
    /\ Started(calls) + Len(RunningToolsPromises(goConfig)) <= MaxRuns
    /\ NoJobQueued
    /\ \A c \in 1..Len(calls) : calls[c].filename = filename
    /\ outputChannel' = <<>>
    /\ goConfig' = [goConfig EXCEPT !.lintFlags = PushFilename(goConfig, filename)]
    /\ calls' = Append(calls,
         [filename |-> filename,
          linter |-> goConfig.linter,
          promises |-> [j \in 1..Len(RunningToolsPromises(goConfig)) |->
                          [kind |-> RunningToolsPromises(goConfig)[j],
                           state |-> "pending", value |-> <<>>,
                           missing |-> FALSE]],
          state |-> "pending",
          value |-> <<>>])
    /\ UNCHANGED <<notifications, tool>>

\* The callback of execFile for run j of call c; missing records that the
\* tool was not found.
ToolExit(c, j, res, fault) ==
    /\ NoJobQueued
    /\ calls[c].promises[j].kind \in ToolKinds
    /\ calls[c].promises[j].state = "pending"
    /\ LET desc == Descriptor(calls[c].promises[j].kind, calls[c].filename,
                              calls[c].linter, goConfig.lintFlags)
           r == RunToolCallback(desc, res, fault)
       IN /\ fault \in Faults(desc, res)
          /\ calls' = [calls EXCEPT ![c].promises[j].state = r.state,
                                    ![c].promises[j].value = r.value,
                                    ![c].promises[j].missing =
                                        (res.err = "ENOENT")]
          /\ outputChannel' = outputChannel \o r.out
          /\ notifications' = notifications \o r.shown
    /\ UNCHANGED <<goConfig, tool>>

\* The promise of getCoverage settles: resolved with a list, or rejected.
CoverExit(c, j, outcome) ==
    /\ NoJobQueued
    /\ calls[c].promises[j].kind = "cover"
    /\ calls[c].promises[j].state = "pending"
    /\ calls' = [calls EXCEPT ![c].promises[j].state = outcome.state,
                              ![c].promises[j].value = outcome.value]
    /\ UNCHANGED <<outputChannel, notifications, goConfig, tool>>

CoverOutcomes ==
    {[state |-> "resolved", value |-> v] : v \in CoverResults}
        \cup {[state |-> "rejected", value |-> <<>>]}

\* The reaction of Promise.all and its then: the promise of call c settles.
Settle(c) ==
    /\ JobQueued(c)
    /\ calls' = [calls EXCEPT ![c].state = AllThenState(calls[c].promises),
                              ![c].value = AllThenValue(calls[c].promises)]
    /\ UNCHANGED <<outputChannel, notifications, goConfig, tool>>

Next ==
    \/ \E filename \in Filenames : Check(filename)
    \/ \E c \in 1..Len(calls) : \E j \in 1..Len(calls[c].promises) :
          \E res \in ExecResults(Outputs), fault \in 0..MaxFault :
             ToolExit(c, j, res, fault)
    \/ \E c \in 1..Len(calls) : \E j \in 1..Len(calls[c].promises) :
          \E outcome \in CoverOutcomes : CoverExit(c, j, outcome)
    \/ \E c \in 1..Len(calls) : Settle(c)

Spec == Init /\ [][Next]_vars

\* The reactions of settled promises are run: the job queue is emptied before
\* the event loop waits again.
FairSpec == Spec /\ WF_vars(\E c \in 1..Len(calls) : Settle(c))

\* ------------------------------------- one run of runTool, line by line

\* The fields of output lines of the form <path>:<line>:<col>:<sev>: <msg>.
WellFormed ==
    { [path |-> <<"a", ".", "g", "o">>, line |-> <<"7">>, col |-> <<"3">>,
       sev |-> <<"w", "a", "r", "n", "i", "n", "g">>, msg |-> <<"m">>],
      [path |-> <<"a", ".", "g", "o">>, line |-> <<"7">>, col |-> <<"1", "2">>,
       sev |-> <<"w", "a", "r", "n", "i", "n", "g">>, msg |-> <<"m">>],
      [path |-> <<"a", ".", "g", "o">>, line |-> <<"7">>, col |-> <<"1", "2">>,
       sev |-> <<>>, msg |-> <<"m">>],
      [path |-> <<"a", ".", "g", "o">>, line |-> <<"7">>, col |-> <<>>,
       sev |-> <<>>, msg |-> <<"m">>],
      [path |-> <<"a", ".", "g", "o">>, line |-> <<"7">>, col |-> <<"0">>,
       sev |-> <<"n", "o", "t", "e">>, msg |-> <<"m">>],
      [path |-> <<"a", ".", "g", "o">>, line |-> <<"0">>, col |-> <<"3">>,
       sev |-> <<>>, msg |-> <<"m">>] }

\* The line a tool writes for the fields f.
Format(f) ==
    f.path \o <<":">> \o f.line \o <<":">> \o f.col \o <<":">> \o f.sev
           \o <<":", " ">> \o f.msg

\* The lines a tool writes: the well-formed ones, the forms of golint and of
\* go vet, and lines that are no diagnostic (empty, a banner, tab-indented, one
\* ending in a carriage return).
GolintLine == <<"d", "/", "b", ".", "g", "o", ":", "1", "0", ":", "0", ":", " ", "m", ":", " ", "n">>
VetLine == <<"a", ".", "g", "o", ":", "7", ":", " ", "m">>
BannerLine == <<"#", " ", "p">>
TabLine == <<"\t", "x">>
TabDiagnosticLine == <<"\t", "a", ".", "g", "o", ":", "7", ":", "3", ":", " ", "m">>
CarriageReturnLine == <<"a", ".", "g", "o", ":", "7", ":", "3", ":", " ", "m", "\r">>

LineSet ==
    {Format(f) : f \in WellFormed}
        \cup {GolintLine, VetLine, <<>>, BannerLine, TabLine,
              TabDiagnosticLine, CarriageReturnLine}

\* The texts of at most n lines.
RECURSIVE Texts(_)
Texts(n) ==
    IF n <= 1 THEN LineSet
    ELSE Texts(n - 1)
           \cup {l \o <<"\n">> \o t : l \in LineSet, t \in Texts(n - 1)}

\* The descriptors of the runs check starts for a file.
Descriptors ==
    {Descriptor(kind, <<"/", "p", "/", "a", ".", "g", "o">>, "golint", <<>>) : kind \in {"build", "lint"}}

\* A run of runTool: execFile has been called, its callback is still to run.
ParseInit ==
    /\ calls = <<>>
    /\ outputChannel = <<>>
    /\ notifications = <<>>
    /\ goConfig \in {config \in Configs :
                       RunningToolsPromises(config) = <<>>}
    /\ \E desc \in Descriptors :
          \E res \in {[err |-> "none",
                       stdout |-> IF desc.useStdErr THEN <<>> ELSE text,
                       stderr |-> IF desc.useStdErr THEN text ELSE <<>>] :
                          text \in Texts(MaxLines)}
                         \cup ExecResults({}) :
             tool = [Idle EXCEPT !.pc = "exec", !.desc = desc, !.res = res]

\* The callback up to the for loop.
ExecCallback ==
    /\ tool.pc = "exec"
    /\ IF tool.res.err = "ENOENT"
       THEN /\ notifications' = Append(notifications, tool.desc.notFoundError)
            /\ tool' = [tool EXCEPT !.pc = "resolved"]
            /\ UNCHANGED outputChannel
       ELSE /\ outputChannel' = Append(outputChannel, FinishedLine(tool.desc))
            /\ tool' = [tool EXCEPT !.pc = "loop",
                                    !.lines = Split(Designated(tool.desc, tool.res)),
                                    !.i = 1,
                                    !.ret = <<>>]
            /\ UNCHANGED notifications
    /\ UNCHANGED <<calls, goConfig>>

\* One iteration of the for loop.
ForLine ==
    /\ tool.pc = "loop"
    /\ tool.i <= Len(tool.lines)
    /\ LET st == LoopBody([ret |-> tool.ret, out |-> <<>>], tool.lines[tool.i],
                          tool.desc.cwd, tool.desc.severity)
       IN /\ tool' = [tool EXCEPT !.ret = st.ret, !.i = tool.i + 1]
          /\ outputChannel' = outputChannel \o st.out
    /\ UNCHANGED <<calls, notifications, goConfig>>

\* After the loop: outputChannel.appendLine(''); resolve(ret).
EndLoop ==
    /\ tool.pc = "loop"
    /\ tool.i > Len(tool.lines)
    /\ outputChannel' = Append(outputChannel, <<>>)
    /\ tool' = [tool EXCEPT !.pc = "resolved"]
    /\ UNCHANGED <<calls, notifications, goConfig>>

\* An iteration throws: the catch rejects the promise.
Catch ==
    /\ tool.pc = "loop"
    /\ tool.i <= Len(tool.lines)
    /\ tool.i <= MaxFault
    /\ tool' = [tool EXCEPT !.pc = "rejected"]
    /\ UNCHANGED <<calls, outputChannel, notifications, goConfig>>

ParseNext == ExecCallback \/ ForLine \/ EndLoop \/ Catch

ParseSpec == ParseInit /\ [][ParseNext]_vars

\* The callback taken line by line ends as the callback taken as a whole.
StepwiseAgrees ==
    /\ tool.pc = "resolved" =>
          LET r == RunToolCallback(tool.desc, tool.res, 0)
          IN r.state = "resolved" /\ tool.ret = r.value
             /\ outputChannel = r.out /\ notifications = r.shown
    /\ tool.pc = "rejected" =>
          LET r == RunToolCallback(tool.desc, tool.res, tool.i)
          IN r.state = "rejected" /\ outputChannel = r.out
             /\ notifications = r.shown

\* ------------------------------------------------- properties of check

\* The promise of the run of a kind in a call, 0 when the call started none.
IndexOf(call, kind) ==
    IF \E j \in 1..Len(call.promises) : call.promises[j].kind = kind
    THEN CHOOSE j \in 1..Len(call.promises) : call.promises[j].kind = kind
    ELSE 0

\* The list the run of a kind resolved with, empty when the call started none.
ResultOf(call, kind) ==
    IF IndexOf(call, kind) = 0 THEN <<>>
    ELSE call.promises[IndexOf(call, kind)].value

\* The number of elements of seq that are x.
Count(seq, x) == Cardinality({k \in 1..Len(seq) : seq[k] = x})

\* The descriptor of the run of a kind in a call.
DescriptorOf(call, kind) ==
    Descriptor(kind, call.filename, call.linter, goConfig.lintFlags)

\* C1: whatever checks are enabled and in whatever order their runs complete,
\* the list check resolves with is the list of the build run, then that of the
\* lint run, then that of the vet run, then that of the coverage collector,
\* and its length is the sum of their lengths.
C1_FixedOrder ==
    \A c \in 1..Len(calls) :
        calls[c].state = "resolved" =>
            /\ calls[c].value =
                  ResultOf(calls[c], "build") \o ResultOf(calls[c], "lint")
                     \o ResultOf(calls[c], "vet") \o ResultOf(calls[c], "cover")
            /\ Len(calls[c].value) =
                  Len(ResultOf(calls[c], "build")) + Len(ResultOf(calls[c], "lint"))
                     + Len(ResultOf(calls[c], "vet")) + Len(ResultOf(calls[c], "cover"))

\* A call with the four checks has resolved with a list to which each
\* contributed, and the vet run was the first tool run to complete.
C1_Witness ==
    \E c \in 1..Len(calls) :
        /\ calls[c].state = "resolved"
        /\ Len(calls[c].promises) = 4
        /\ \A j \in 1..4 : calls[c].promises[j].value # <<>>
        /\ ResultOf(calls[c], "build") # ResultOf(calls[c], "lint")
        /\ outputChannel # <<>>
        /\ outputChannel[1] = FinishedLine(DescriptorOf(calls[c], "vet"))

\* C2: a run whose tool is missing resolves with the empty list and shows the
\* not-found message of its check exactly once; the call still resolves, with
\* the lists of the other checks in their fixed order.
C2_MissingTool ==
    /\ \A c \in 1..Len(calls) : \A j \in 1..Len(calls[c].promises) :
          calls[c].promises[j].missing =>
              /\ calls[c].promises[j].state = "resolved"
              /\ calls[c].promises[j].value = <<>>
    /\ \A kind \in ToolKinds, filename \in Filenames, linter \in Linters :
          LET message == Descriptor(kind, filename, linter, <<>>).notFoundError
          IN Count(notifications, message) =
                Cardinality({cj \in (1..Len(calls)) \X (1..MaxRuns) :
                    /\ cj[2] <= Len(calls[cj[1]].promises)
                    /\ calls[cj[1]].promises[cj[2]].missing
                    /\ DescriptorOf(calls[cj[1]],
                          calls[cj[1]].promises[cj[2]].kind).notFoundError
                          = message})
    /\ \A c \in 1..Len(calls) :
          (/\ \A j \in 1..Len(calls[c].promises) :
                 calls[c].promises[j].state = "resolved"
           /\ ~JobQueued(c)) =>
              /\ calls[c].state = "resolved"
              /\ calls[c].value =
                    Concat([j \in 1..Len(calls[c].promises) |->
                              IF calls[c].promises[j].missing THEN <<>>
                              ELSE calls[c].promises[j].value])

\* The four checks were enabled and the linter is missing: the call has
\* resolved with what the build, the vet and the coverage runs found, and one
\* message has been shown.
C2_Witness ==
    \E c \in 1..Len(calls) :
        /\ calls[c].state = "resolved"
        /\ Len(calls[c].promises) = 4
        /\ calls[c].promises[2].missing
        /\ \A j \in {1, 3, 4} :
              ~calls[c].promises[j].missing /\ calls[c].promises[j].value # <<>>
        /\ calls[c].value = calls[c].promises[1].value
                               \o calls[c].promises[3].value
                               \o calls[c].promises[4].value
        /\ notifications = <<DescriptorOf(calls[c], "lint").notFoundError>>

\* C3: check does not resolve before every run it started has completed, and
\* once every run it started has resolved, check resolves.
C3_ResolvesAfterAll ==
    /\ [](\A c \in 1..Len(calls) :
            calls[c].state = "resolved" =>
                \A j \in 1..Len(calls[c].promises) :
                    calls[c].promises[j].state # "pending")
    /\ \A c \in 1..MaxCalls :
          (/\ c <= Len(calls)
           /\ \A j \in 1..Len(calls[c].promises) :
                 calls[c].promises[j].state = "resolved")
             ~> (c <= Len(calls) /\ calls[c].state = "resolved")

\* A call that started the four checks has resolved.
C3_Witness ==
    \E c \in 1..Len(calls) :
        /\ calls[c].state = "resolved"
        /\ Len(calls[c].promises) = 4
        /\ \A j \in 1..4 : calls[c].promises[j].state = "resolved"

\* C4: when a run that check started rejects, check rejects: it does not
\* resolve, and no list is delivered, not even that of the runs that resolved.
C4_RejectionPropagates ==
    \A c \in 1..Len(calls) :
        (\E j \in 1..Len(calls[c].promises) :
            calls[c].promises[j].state = "rejected") =>
            /\ calls[c].state # "resolved"
            /\ calls[c].value = <<>>
            /\ calls[c].state = "pending" => JobQueued(c)

\* A call has rejected after a fault in a tool run, while another of its runs
\* had resolved with diagnostics and a third is still running.
C4_Witness ==
    \E c \in 1..Len(calls) :
        /\ calls[c].state = "rejected"
        /\ \E j \in 1..Len(calls[c].promises) :
              /\ calls[c].promises[j].kind \in ToolKinds
              /\ calls[c].promises[j].state = "rejected"
        /\ \E j \in 1..Len(calls[c].promises) :
              /\ calls[c].promises[j].state = "resolved"
              /\ calls[c].promises[j].value # <<>>
        /\ \E j \in 1..Len(calls[c].promises) :
              calls[c].promises[j].state = "pending"

\* ----------------------------------------------- properties of runTool

\* The step is an iteration of the for loop.
Iteration ==
    /\ tool.pc = "loop"
    /\ tool.i <= Len(tool.lines)
    /\ tool'.pc = "loop"
    /\ tool'.i = tool.i + 1

\* The line begins with a tab.
TabPrefixed(line) == Len(line) > 0 /\ line[1] = "\t"

\* C5: for a line <path>:<line>:<col>:<sev>: <msg>, with any digits or none as
\* <col> and any word or none as <sev>, the iteration produces exactly one
\* diagnostic: its line and column are the numbers written (column 1 for 0 or
\* none), its severity is <sev> or else the default of the run, its message
\* is <msg>.
C5_WellFormedLine ==
    [][\A f \in WellFormed :
          (Iteration /\ tool.lines[tool.i] = Format(f)) =>
              /\ Len(tool'.ret) = Len(tool.ret) + 1
              /\ SubSeq(tool'.ret, 1, Len(tool.ret)) = tool.ret
              /\ LET d == tool'.ret[Len(tool'.ret)]
                 IN /\ d.line = ToNumber(f.line)
                    /\ d.char = (IF ToNumber(f.col) = 0 THEN 1
                                 ELSE ToNumber(f.col))
                    /\ d.severity = (IF f.sev # <<>> THEN f.sev
                                     ELSE tool.desc.severity)
                    /\ d.msg = f.msg]_vars

Occurs(s, line) ==
    \E from \in 1..(Len(line) - Len(s) + 1) :
        SubSeq(line, from, from + Len(s) - 1) = s

NoColumnLines ==
    {Format(f) : f \in {g \in WellFormed : g.col \in {<<>>, <<"0">>}}}
        \cup {GolintLine, VetLine}

\* C7: the column of every diagnostic is at least 1; the diagnostic of a line
\* whose column is written as 0 or left out has column 1.
C7_ColumnAtLeastOne ==
    /\ \A k \in 1..Len(tool.ret) : tool.ret[k].char >= 1
    /\ (tool.i > 1 /\ tool.lines[tool.i - 1] \in NoColumnLines) =>
          Len(tool.ret) >= 1 /\ tool.ret[Len(tool.ret)].char = 1

\* A line with column 0 and a line without column have been read: both
\* diagnostics have column 1.
C7_Witness ==
    /\ tool.i = 3
    /\ tool.lines[1] = GolintLine
    /\ tool.lines[2] = VetLine
    /\ Len(tool.ret) = 2
    /\ tool.ret[1].char = 1
    /\ tool.ret[2].char = 1

\* C8 as claimed: the line of every diagnostic is at least 1.
C8_LineAtLeastOne ==
    \A k \in 1..Len(tool.ret) : tool.ret[k].line >= 1

\* The digits written between the first and the second colon of a line.
LineField(line) ==
    LET colon == CHOOSE k \in 1..Len(line) :
                     line[k] = ":" /\ \A j \in 1..(k - 1) : line[j] # ":"
    IN SubSeq(line, colon + 1, colon + RunLen(line, colon + 1, Digits))

\* C8 as amended: the line of a diagnostic is the number written in the
\* line-number field of its output line; it is at least 0, and it is 0 when
\* the tool wrote 0 there.
C8_LineAsWritten ==
    [][(Iteration /\ Len(tool'.ret) = Len(tool.ret) + 1) =>
          LET d == tool'.ret[Len(tool'.ret)]
              field == LineField(tool.lines[tool.i])
          IN /\ field # <<>>
             /\ d.line = ToNumber(field)
             /\ d.line >= 0
             /\ d.line = 0 <=> \A n \in 1..Len(field) : field[n] = "0"]_vars

\* A run has produced a diagnostic with line 0 and one with line 10.
C8_Witness ==
    /\ Len(tool.ret) = 2
    /\ tool.ret[1].line = 0
    /\ tool.ret[2].line = 10

\* C9: an iteration on a line that begins with a tab, when a diagnostic has
\* been produced, appends a newline and the whole line to the message of the
\* last diagnostic, and changes nothing else: no diagnostic is added, no
\* other diagnostic and no other field changes, whatever follows the tab.
C9_Continuation ==
    [][(Iteration /\ TabPrefixed(tool.lines[tool.i]) /\ Len(tool.ret) > 0) =>
          LET n == Len(tool.ret)
          IN /\ Len(tool'.ret) = n
             /\ \A k \in 1..(n - 1) : tool'.ret[k] = tool.ret[k]
             /\ tool'.ret[n].msg =
                   tool.ret[n].msg \o <<"\n">> \o tool.lines[tool.i]
             /\ tool'.ret[n] = [tool.ret[n] EXCEPT !.msg = tool'.ret[n].msg]
             /\ outputChannel' = outputChannel]_vars

\* After two diagnostics, a line made of a tab and the text of a diagnostic
\* has been read: it is in the message of the second diagnostic.
C9_Witness ==
    /\ tool.i = 4
    /\ tool.lines[3] = TabDiagnosticLine
    /\ Len(tool.ret) = 2
    /\ tool.ret[1].msg = <<"m">>
    /\ tool.ret[2].msg = <<"m">> \o <<"\n">> \o TabDiagnosticLine

\* Line o of the run produced a diagnostic.
Produced(o) ==
    ~TabPrefixed(tool.lines[o]) /\ Exec(tool.lines[o]).ok

\* C10 as claimed: a line that begins with a tab is appended to a message
\* only if every line between the line of that diagnostic and the tab line
\* begins with a tab.
C10_OnlyImmediatelyFollowing ==
    [][(Iteration /\ TabPrefixed(tool.lines[tool.i])
          /\ tool'.ret # tool.ret) =>
          \E o \in 1..(tool.i - 1) :
              /\ Produced(o)
              /\ \A m \in (o + 1)..(tool.i - 1) : TabPrefixed(tool.lines[m])]_vars

\* The lines o+1 to i that begin with a tab, each after a newline.
RECURSIVE Continuations(_, _)
Continuations(o, i) ==
    IF i <= o THEN <<>>
    ELSE Continuations(o, i - 1)
            \o (IF TabPrefixed(tool.lines[i])
                THEN <<"\n">> \o tool.lines[i] ELSE <<>>)

\* C10 as amended: a line that begins with a tab is appended to the message
\* of the most recently produced diagnostic, also when lines that were
\* discarded lie between the two; the message is the one of its own line
\* followed by every tab line read since.  Before the first diagnostic a tab
\* line is added to no diagnostic.
C10_AppendsToMostRecent ==
    [][(Iteration /\ TabPrefixed(tool.lines[tool.i])) =>
          LET P == {o \in 1..(tool.i - 1) : Produced(o)}
          IN IF P = {}
             THEN tool.ret = <<>> /\ tool'.ret = <<>>
             ELSE LET o == CHOOSE o \in P : \A m \in P : m <= o
                      n == Len(tool.ret)
                  IN /\ n = Cardinality(P)
                     /\ Len(tool'.ret) = n
                     /\ \A k \in 1..(n - 1) : tool'.ret[k] = tool.ret[k]
                     /\ tool'.ret[n].msg =
                           Exec(tool.lines[o]).msg \o Continuations(o, tool.i)]_vars

\* A diagnostic, then a line that is discarded, then a tab line: the tab
\* line is in the message of the diagnostic.
C10_Witness ==
    /\ tool.i = 4
    /\ tool.lines = <<VetLine, BannerLine, TabLine>>
    /\ Len(tool.ret) = 1
    /\ tool.ret[1].msg = <<"m">> \o <<"\n">> \o TabLine

\* C11: an iteration on a line that does not match the pattern and is no
\* continuation (a banner, an empty line, a line that begins with a tab
\* before the first diagnostic) leaves the list of diagnostics as it is.
C11_DiscardedLine ==
    [][(/\ Iteration
        /\ ~(TabPrefixed(tool.lines[tool.i]) /\ Len(tool.ret) > 0)
        /\ ~Exec(tool.lines[tool.i]).ok) =>
          tool'.ret = tool.ret]_vars

\* A tab line before the first diagnostic, the line of a diagnostic and the
\* empty line after the last newline have been read: the list holds the one
\* diagnostic, with its own message.
C11_Witness ==
    /\ tool.pc = "loop"
    /\ tool.i = 4
    /\ tool.lines = <<TabLine, VetLine, <<>> >>
    /\ Len(tool.ret) = 1
    /\ tool.ret[1].msg = <<"m">>

\* ------------------- one run of runTool, for every outcome of the process

\* Lines that differ in the path the tool reports, and a line with a
\* severity word.
BareLine == <<"b", ".", "g", "o", ":", "8", ":", " ", "k">>
AbsoluteLine == <<"/", "q", "/", "b", ".", "g", "o", ":", "8", ":", " ", "k">>
ParentLine == <<".", ".", ":", "8", ":", " ", "k">>
NoPathLine == <<":", "8", ":", " ", "k">>
NoteLine == <<"a", ".", "g", "o", ":", "7", ":", "0", ":", "n", "o", "t", "e", ":", " ", "m">>

StreamLines ==
    {VetLine, GolintLine, BareLine, AbsoluteLine, ParentLine, NoPathLine,
     NoteLine, TabLine, BannerLine}

\* The texts of at most n of these lines.
RECURSIVE StreamTexts(_)
StreamTexts(n) ==
    IF n <= 1 THEN StreamLines
    ELSE StreamTexts(n - 1)
           \cup {l \o <<"\n">> \o t : l \in StreamLines, t \in StreamTexts(n - 1)}

\* What the tool writes on the stream runTool does not read.
OtherTexts == {<<>>, GolintLine}

\* The files check is called for: in a directory, and in the root.
StreamFilenames == {<<"/", "p", "/", "a", ".", "g", "o">>, <<"/", "a", ".", "g", "o">>}

\* The descriptors of the three tool runs check starts for these files.
StreamDescriptors ==
    {Descriptor(kind, filename, "golint", <<filename>>) :
        kind \in ToolKinds, filename \in StreamFilenames}

\* The result of a process that ran, with text on the stream runTool reads.
Ran(desc, err, text, other) ==
    [err |-> err,
     stdout |-> IF desc.useStdErr THEN other ELSE text,
     stderr |-> IF desc.useStdErr THEN text ELSE other]

\* A run of runTool: execFile has been called, its callback is still to run;
\* the process exits with any status and writes on both streams.
StreamInit ==
    /\ calls = <<>>
    /\ outputChannel = <<>>
    /\ notifications = <<>>
    /\ goConfig \in {config \in Configs :
                       RunningToolsPromises(config) = <<>>}
    /\ \E desc \in StreamDescriptors :
          \E res \in {Ran(desc, err, text, other) :
                         err \in {"none", "exit"},
                         text \in StreamTexts(MaxLines - 1),
                         other \in OtherTexts}
                         \cup ExecResults({}) :
             tool = [Idle EXCEPT !.pc = "exec", !.desc = desc, !.res = res]

StreamSpec == StreamInit /\ [][ParseNext]_vars

\* C12: the diagnostics of a run whose tool was executed are those of the
\* text of its designated stream alone: the same for an exit status of zero
\* or not, and for anything written on the other stream.
C12_DesignatedStreamOnly ==
    (tool.pc = "resolved" /\ tool.res.err # "ENOENT") =>
        LET text == IF tool.desc.useStdErr THEN tool.res.stderr
                    ELSE tool.res.stdout
        IN \A err \in {"none", "exit"}, other \in OtherTexts :
              RunToolCallback(tool.desc, Ran(tool.desc, err, text, other), 0).value
                 = tool.ret

\* The linter has failed with the line of a diagnostic on its error stream
\* and another on its output: the run has resolved with the latter alone.
C12_Witness ==
    /\ tool.pc = "resolved"
    /\ tool.res.err = "exit"
    /\ ~tool.desc.useStdErr
    /\ tool.res.stderr = GolintLine
    /\ tool.res.stdout = VetLine
    /\ Len(tool.ret) = 1
    /\ tool.ret[1].line = 7

\* The option of the configuration that enables the check of a kind.
Enabled(kind) ==
    CASE kind = "build" -> goConfig.buildOnSave
      [] kind = "lint" -> goConfig.lintOnSave
      [] kind = "vet" -> goConfig.vetOnSave
      [] kind = "cover" -> goConfig.coverOnSave

\* C13: a check whose option is off is never started: no call has a run of
\* its kind, the output channel holds no line of such a run, its not-found
\* message is never shown, and a resolved call holds the lists of the runs it
\* started and nothing else; with every option off, check resolves with the
\* empty list.
C13_DisabledNeverStarted ==
    \A c \in 1..Len(calls) :
        /\ \A kind \in ToolKinds \cup {"cover"} :
              ~Enabled(kind) =>
                  /\ \A j \in 1..Len(calls[c].promises) :
                        calls[c].promises[j].kind # kind
                  /\ kind \in ToolKinds =>
                        LET desc == DescriptorOf(calls[c], kind)
                        IN /\ \A k \in 1..Len(outputChannel) :
                                 outputChannel[k] # FinishedLine(desc)
                           /\ \A k \in 1..Len(notifications) :
                                 notifications[k] # desc.notFoundError
        /\ Len(calls[c].promises) =
              Cardinality({kind \in ToolKinds \cup {"cover"} : Enabled(kind)})
        /\ calls[c].state = "resolved" =>
              Len(calls[c].value) =
                  Len(ResultOf(calls[c], "build")) + Len(ResultOf(calls[c], "lint"))
                     + Len(ResultOf(calls[c], "vet")) + Len(ResultOf(calls[c], "cover"))
        /\ (\A kind \in ToolKinds \cup {"cover"} : ~Enabled(kind)) =>
              /\ calls[c].promises = <<>>
              /\ outputChannel = <<>>
              /\ notifications = <<>>
              /\ calls[c].value = <<>>
              /\ calls[c].state = "resolved" \/ JobQueued(c)

\* Only vetOnSave is on: a call has resolved with the diagnostics of its one
\* run, the vet run, whose lines are on the output channel.
C13_Witness ==
    /\ Enabled("vet")
    /\ ~Enabled("build") /\ ~Enabled("lint") /\ ~Enabled("cover")
    /\ Len(calls) >= 1
    /\ calls[1].state = "resolved"
    /\ Len(calls[1].promises) = 1
    /\ calls[1].value # <<>>
    /\ outputChannel # <<>>
    /\ outputChannel[1] = FinishedLine(DescriptorOf(calls[1], "vet"))

\* The lines read so far that produced a diagnostic.
Producers ==
    {o \in 1..(tool.i - 1) : o <= Len(tool.lines) /\ Produced(o)}

\* The k-th of them in the order of the output.
NthProducer(k) ==
    LET P == Producers
    IN CHOOSE o \in P : Cardinality({m \in P : m <= o}) = k

\* C14: the list of a run holds one diagnostic for each line read so far
\* that matched the pattern without being taken as a continuation, in the
\* order of the lines: the k-th diagnostic has the line number and begins
\* with the message of the k-th such line.
C14_OrderOfOutput ==
    /\ Len(tool.ret) = Cardinality(Producers)
    /\ \A k \in 1..Len(tool.ret) :
          LET line == tool.lines[NthProducer(k)]
              msg == Exec(line).msg
          IN /\ tool.ret[k].line = ToNumber(LineField(line))
             /\ Len(tool.ret[k].msg) >= Len(msg)
             /\ SubSeq(tool.ret[k].msg, 1, Len(msg)) = msg

\* The line of golint, a banner and the line of go vet have been read: the
\* diagnostic of line 10 comes before that of line 7.
C14_Witness ==
    /\ tool.pc = "resolved"
    /\ tool.lines = <<GolintLine, BannerLine, VetLine>>
    /\ Len(tool.ret) = 2
    /\ tool.ret[1].line = 10
    /\ tool.ret[2].line = 7

\* The path a line reports: what stands before its first colon.
PathField(line) ==
    LET colon == CHOOSE k \in 1..Len(line) :
                     line[k] = ":" /\ \A j \in 1..(k - 1) : line[j] # ":"
    IN SubSeq(line, 1, colon - 1)

\* The components of a path: what stands between its slashes.
RECURSIVE Components(_)
Components(p) ==
    LET S == {k \in 1..Len(p) : p[k] = "/"}
    IN IF S = {} THEN <<p>>
       ELSE LET n == CHOOSE k \in S : \A j \in S : k <= j
            IN <<SubSeq(p, 1, n - 1)>> \o Components(SubSeq(p, n + 1, Len(p)))

\* The final component of a path, empty for the empty path.
FinalComponent(p) ==
    LET cs == Components(p)
        N == {k \in 1..Len(cs) : cs[k] # <<>>}
    IN IF N = {} THEN <<>> ELSE cs[CHOOSE k \in N : \A j \in N : j <= k]

\* The directories entered when the components are followed from the root.
RECURSIVE Walk(_, _)
Walk(stack, cs) ==
    IF cs = <<>> THEN stack
    ELSE Walk(IF Head(cs) = <<>> \/ Head(cs) = <<".">> THEN stack
              ELSE IF Head(cs) = <<".", ".">>
              THEN SubSeq(stack, 1, Len(stack) - 1)
              ELSE Append(stack, Head(cs)),
              Tail(cs))

\* The absolute path of a sequence of components.
RECURSIVE AsPath(_)
AsPath(stack) ==
    IF stack = <<>> THEN <<>>
    ELSE <<"/">> \o Head(stack) \o AsPath(Tail(stack))

\* The file named by a component in a directory.
Joined(dir, component) ==
    LET stack == Walk(<<>>, Append(Components(dir), component))
    IN IF stack = <<>> THEN <<"/">> ELSE AsPath(stack)

\* C15: the file of a diagnostic is the final component of the path its line
\* reports, joined to the working directory of the run, which is the
\* directory of the checked file; two lines whose paths end in the same
\* component give the same file.
C15_FileInWorkingDirectory ==
    /\ \E filename \in StreamFilenames, kind \in ToolKinds :
          /\ tool.desc = Descriptor(kind, filename, "golint", <<filename>>)
          /\ Joined(tool.desc.cwd, FinalComponent(filename)) = filename
    /\ Len(tool.ret) = Cardinality(Producers)
    /\ LET reported == [k \in 1..Len(tool.ret) |->
                          FinalComponent(PathField(tool.lines[NthProducer(k)]))]
       IN /\ \A k \in 1..Len(tool.ret) :
                tool.ret[k].file = Joined(tool.desc.cwd, reported[k])
          /\ \A k \in 1..Len(tool.ret), n \in 1..Len(tool.ret) :
                reported[k] = reported[n] => tool.ret[k].file = tool.ret[n].file

\* A run in /p has read a line for /q/b.go and a line for b.go: both
\* diagnostics are for /p/b.go.
C15_Witness ==
    /\ tool.pc = "resolved"
    /\ tool.desc.cwd = <<"/", "p">>
    /\ tool.lines = <<AbsoluteLine, BareLine>>
    /\ Len(tool.ret) = 2
    /\ tool.ret[1].file = <<"/", "p", "/", "b", ".", "g", "o">>
    /\ tool.ret[2].file = <<"/", "p", "/", "b", ".", "g", "o">>

\* The line of the output channel for the k-th diagnostic of the run: its
\* file, line and column, and the message of its own output line.
Logged(k) ==
    tool.ret[k].file \o <<":">> \o NumberToString(tool.ret[k].line)
        \o <<":">> \o NumberToString(tool.ret[k].char) \o <<":", " ">>
        \o Exec(tool.lines[NthProducer(k)]).msg

\* The output channel begins with the one 'Finished running tool:' line of
\* the run, followed by one line for each diagnostic, in order.
LoggedSoFar ==
    /\ Len(outputChannel) >= Len(tool.ret) + 1
    /\ outputChannel[1] = FinishedLine(tool.desc)
    /\ \A k \in 1..Len(tool.ret) : outputChannel[k + 1] = Logged(k)

Settled == \A c \in 1..Len(calls) : calls[c].state # "pending"

\* check(filename, goConfig), called by a caller that waits until the call
\* before has resolved or rejected.
SerialCheck(filename) == Settled /\ Check(filename)

SerialNext ==
    \/ \E filename \in Filenames : SerialCheck(filename)
    \/ \E c \in 1..Len(calls) : \E j \in 1..Len(calls[c].promises) :
          \E res \in ExecResults(Outputs), fault \in 0..MaxFault :
             ToolExit(c, j, res, fault)
    \/ \E c \in 1..Len(calls) : \E j \in 1..Len(calls[c].promises) :
          \E outcome \in CoverOutcomes : CoverExit(c, j, outcome)
    \/ \E c \in 1..Len(calls) : Settle(c)

SerialSpec == Init /\ [][SerialNext]_vars

\* C17: when every call of check is made after the call before has settled,
\* a run of a call that is not the latest one appends nothing to the output
\* channel: what the latest call cleared holds lines of its own runs only.
C17_SinkOfLatestCall ==
    [][\A c \in 1..Len(calls) :
          (c < Len(calls) /\ Len(calls') = Len(calls)
              /\ calls'[c] # calls[c]) =>
              outputChannel' = outputChannel]_vars

\* The stream and the default severity the claim gives to the run of a kind.
StreamOf(kind, res) == IF kind = "lint" THEN res.stdout ELSE res.stderr

DefaultOf(kind) == IF kind = "build" THEN SevError ELSE SevWarning

C19_ConfigUnchanged ==
    /\ goConfig.lintFlags = <<>>
    /\ \A c \in 1..Len(calls) :
          (calls[c].linter = "golint" /\ IndexOf(calls[c], "lint") # 0) =>
              DescriptorOf(calls[c], "lint").args = <<calls[c].filename>>

\* A line of the output channel that opens the lines of a run.
IsFinished(line) == Len(line) >= 1 /\ line[1] = "Finished running tool:"

\* b is what one run appends: its 'Finished running tool:' line, lines of
\* diagnostics, and the empty line if the run resolved.
BlockOf(b, desc, resolved, n) ==
    /\ Len(b) >= 1
    /\ b[1] = FinishedLine(desc)
    /\ \A k \in 2..Len(b) : ~IsFinished(b[k])
    /\ \A k \in 1..Len(b) : b[k] = <<>> <=> (resolved /\ k = Len(b))
    /\ resolved => Len(b) = n + 2

\* C20: whatever the order in which the runs complete, the output channel
\* is a sequence of whole blocks: it is changed only by a call of check, which
\* empties it, or by the completion of one run, which appends the whole block
\* of that run at the end; so it begins with a 'Finished running tool:' line
\* and an empty line is followed by such a line or by nothing.
C20_BlocksContiguous ==
    /\ [](/\ outputChannel # <<>> => IsFinished(outputChannel[1])
          /\ \A k \in 1..(Len(outputChannel) - 1) :
                outputChannel[k] = <<>> => IsFinished(outputChannel[k + 1]))
    /\ [][outputChannel' # outputChannel =>
            \/ Len(calls') = Len(calls) + 1 /\ outputChannel' = <<>>
            \/ /\ Len(calls') = Len(calls)
               /\ \E c \in 1..Len(calls) : \E j \in 1..Len(calls[c].promises) :
                     /\ calls[c].promises[j].state = "pending"
                     /\ calls'[c].promises[j].state # "pending"
                     /\ calls[c].promises[j].kind \in ToolKinds
                     /\ \A d \in 1..Len(calls) : \A i \in 1..Len(calls[d].promises) :
                           <<d, i>> # <<c, j>> =>
                               calls'[d].promises[i] = calls[d].promises[i]
                     /\ Len(outputChannel') > Len(outputChannel)
                     /\ SubSeq(outputChannel', 1, Len(outputChannel))
                           = outputChannel
                     /\ BlockOf(SubSeq(outputChannel', Len(outputChannel) + 1,
                                       Len(outputChannel')),
                                DescriptorOf(calls[c], calls[c].promises[j].kind),
                                calls'[c].promises[j].state = "resolved",
                                Len(calls'[c].promises[j].value))]_vars

\* The vet run of a call has completed before its build run, each with two
\* diagnostics: the output channel holds the four lines of the vet run, then
\* the four lines of the build run.
C20_Witness ==
    /\ Len(calls) >= 1
    /\ Len(outputChannel) = 8
    /\ outputChannel[1] = FinishedLine(DescriptorOf(calls[1], "vet"))
    /\ outputChannel[4] = <<>>
    /\ outputChannel[5] = FinishedLine(DescriptorOf(calls[1], "build"))
    /\ outputChannel[8] = <<>>
    /\ ~IsFinished(outputChannel[2]) /\ ~IsFinished(outputChannel[6])

====
